---------------------------- MODULE Spec2Model ----------------------------
(***************************************************************************)
(* AxiosHttpClient (src/src/axios-http-client.ts): an HTTP client facade   *)
(* that dispatches a request through an axios instance, lets axios-retry   *)
(* re-attempt it, and turns the terminal failure into a typed error in     *)
(* rethrowError.                                                           *)
(*                                                                         *)
(* JavaScript strings that the code inspects or builds (startsWith, the    *)
(* template `${name}: ${message}`, === 'canceled') are sequences of        *)
(* one-character strings.  A JavaScript value is a record tagged with its  *)
(* typeof.                                                                 *)
(***************************************************************************)
EXTENDS Integers, Sequences, FiniteSets, TLC

\* ------------------------------------------------------------ bounds
\* Largest maximumRetry a client is constructed with.
MaxRetry == 2
\* Number of callers sending side by side on one client.
MaxSends == 2

\* ------------------------------------------------------ string literals
S_timeout == <<"t","i","m","e","o","u","t">>
S_canceled == <<"c","a","n","c","e","l","e","d">>
S_colon == <<":"," ">>
S_invalidMethod == <<"I","n","v","a","l","i","d"," ","m","e","t","h","o","d"," ">>
S_dot == <<".">>
S_timeoutMsg == <<"t","i","m","e","o","u","t"," ","o","f"," ","5","0","0","m","s"," ","e","x","c","e","e","d","e","d">>
S_Error == <<"E","r","r","o","r">>
S_ECONNREFUSED == <<"E","C","O","N","N","R","E","F","U","S","E","D">>
S_ECONNRESET == <<"E","C","O","N","N","R","E","S","E","T">>
S_ECONNABORTED == <<"E","C","O","N","N","A","B","O","R","T","E","D">>
S_ERR_CANCELED == <<"E","R","R","_","C","A","N","C","E","L","E","D">>
S_SystemError == <<"S","y","s","t","e","m","E","r","r","o","r">>
S_mockErrorMessage == <<"m","o","c","k","E","r","r","o","r","M","e","s","s","a","g","e">>
S_anErrorMessage == <<"A","n"," ","E","r","r","o","r"," ","M","e","s","s","a","g","e">>
S_missingToken == <<"M","i","s","s","i","n","g"," ","A","u","t","h","e","n","t","i","c","a","t","i","o","n"," ","T","o","k","e","n">>
S_GET == <<"G","E","T">>
S_POST == <<"P","O","S","T">>
S_PUT == <<"P","U","T">>
S_PATCH == <<"P","A","T","C","H">>
S_DELETE == <<"D","E","L","E","T","E">>
S_HEAD == <<"H","E","A","D">>

\* ------------------------------------------------------ JavaScript values
Undefined == [t |-> "undefined"]
Null == [t |-> "null"]
Str(s) == [t |-> "string", v |-> s]
Num(n) == [t |-> "number", v |-> n]
\* A JSON object body with (possibly absent) name and message members.
Obj(name, message) == [t |-> "object", name |-> name, message |-> message]

IsNullish(x) == x.t \in {"undefined", "null"}
IsString(x) == x.t = "string"
\* String.prototype.startsWith
StartsWith(s, p) == Len(s) >= Len(p) /\ SubSeq(s, 1, Len(p)) = p
\* x?.message on a response body: only an object has the member.
MessageOf(body) == IF body.t = "object" THEN body.message ELSE Undefined


\* ------------------------------------------------- error-resolution config
\* Configuration values a caller passes to configure().
NoCtor == [t |-> "null"]
Ctor(n) == [t |-> "function", name |-> n]
NoMap == [t |-> "null"]
\* A ReadonlyMap<string, ErrorConstructor>: m is a function from names.
MapOf(m) == [t |-> "map", m |-> m]
Handler(n) == [t |-> "function", name |-> n]

\* Map.prototype.get
MapGet(map, name) == IF name \in DOMAIN map.m THEN map.m[name] ELSE Undefined

S_X == <<"X">>
Handlers == {Handler("throws"), Handler("returns")}
\* <<errorNameToConstructor, serviceErrorConstructor>> of the configurations:
\* a map with the envelope's name and a map without it, each with a fallback
\* constructor; the map alone, the fallback alone, neither.
ConstructorPairs ==
    { <<MapOf([n \in {S_SystemError} |-> Ctor("NetworkError")]), Ctor("MockServiceError")>>,
      <<MapOf([n \in {S_X} |-> Ctor("NetworkError")]), Ctor("MockServiceError")>>,
      <<MapOf([n \in {S_SystemError} |-> Ctor("NetworkError")]), NoCtor>>,
      <<NoMap, Ctor("MockServiceError")>>,
      <<NoMap, NoCtor>> }
Configurations ==
    [type : {"http-error-handler"}, handler : Handlers]
    \cup { [type |-> "error-constructor", errorNameToConstructor |-> p[1],
            serviceErrorConstructor |-> p[2]] : p \in ConstructorPairs }
    \cup [type : {"other"}]

\* ---------------------------------------------------------- error values
NoResponse == [t |-> "undefined"]
Response(status, data, headers) ==
    [t |-> "response", status |-> status, data |-> data, headers |-> headers]

\* The error object a rejected attempt carries (an AxiosError, a CanceledError,
\* a legacy Cancel, or the IllegalArgumentError of send).
ErrorObject(name, isAxios, message, code, response, hasConfig) ==
    [t |-> "original", name |-> name, isAxiosError |-> isAxios, message |-> message,
     code |-> code, response |-> response, hasConfig |-> hasConfig]
\* new <ctor>(arg)
TypedError(ctor, arg) == [t |-> "typed", ctor |-> ctor, arg |-> arg]
\* What a custom handler raises when called with (status, body).
HandlerError(h, status, body) == [t |-> "handler", handler |-> h, status |-> status, body |-> body]

NoError == [t |-> "none"]

\* --------------------------------------------------------------- transport
\* What the wire does with one attempt: a response, or a failure without one.
S_requestFailed == <<"R","e","q","u","e","s","t"," ","f","a","i","l","e","d">>
S_ERR_BAD_REQUEST == <<"E","R","R","_","B","A","D","_","R","E","Q","U","E","S","T">>
S_ERR_BAD_RESPONSE == <<"E","R","R","_","B","A","D","_","R","E","S","P","O","N","S","E">>

Statuses == {200, 401, 403, 404, 500}
Bodies == {Str(S_anErrorMessage),
           Obj(Str(S_SystemError), Str(S_mockErrorMessage)),
           Obj(Undefined, Str(S_missingToken)),
           Obj(Str(S_SystemError), Num(42))}
\* The response headers as axios exposes them (lower-cased names).
S_plainText == <<"p","l","a","i","n","/","t","e","x","t">>
S_applicationJson == <<"a","p","p","l","i","c","a","t","i","o","n","/","j","s","o","n">>
Headers(contentType) == [contentType |-> contentType]
\* The Content-Type the server answers a body with.
HeadersOf(body) ==
    IF body.t = "string" THEN Headers(Str(S_plainText)) ELSE Headers(Str(S_applicationJson))
\* The bodies a status is answered with: an envelope and a body that is none
\* (JSON for a server error, plain text otherwise); any of Bodies for the
\* statuses whose branch reads the body's message.
BodiesOf(status) ==
    IF status \in {403, 404} THEN Bodies
    ELSE IF status >= 500
         THEN {Obj(Undefined, Str(S_missingToken)), Obj(Str(S_SystemError), Str(S_mockErrorMessage))}
         ELSE {Str(S_anErrorMessage), Obj(Str(S_SystemError), Str(S_mockErrorMessage))}
WireResponses ==
    UNION { { [k |-> "response", status |-> st, data |-> b, headers |-> HeadersOf(b)] :
                  b \in BodiesOf(st) } : st \in Statuses }
\* String(n) of a non-negative integer.
DigitChars == <<"0","1","2","3","4","5","6","7","8","9">>
RECURSIVE Decimal(_)
Decimal(n) ==
    IF n < 10 THEN <<DigitChars[n + 1]>>
    ELSE Decimal(n \div 10) \o <<DigitChars[(n % 10) + 1]>>
\* 'timeout of ' + config.timeout + 'ms exceeded'
TimeoutMessage(ms) ==
    S_timeout \o <<" ","o","f"," ">> \o Decimal(ms)
        \o <<"m","s"," ","e","x","c","e","e","d","e","d">>
\* An attempt times out only under a timeout greater than 0.
TimeoutFailures(timeout) ==
    IF timeout > 0
    THEN { [k |-> "failure", message |-> Str(TimeoutMessage(timeout)),
            code |-> Str(S_ECONNABORTED)] }
    ELSE {}
NetworkFailures ==
    { [k |-> "failure", message |-> Str(S_Error), code |-> Str(S_ECONNREFUSED)],
      [k |-> "failure", message |-> Undefined, code |-> Str(S_ECONNRESET)],
      [k |-> "failure", message |-> Str(<<>>), code |-> Str(S_ECONNREFUSED)] }
\* What the wire can do with an attempt made under `timeout` milliseconds.
WireOutcomes(timeout) == WireResponses \cup NetworkFailures \cup TimeoutFailures(timeout)

\* axios settles a response by its status (validateStatus: 2xx resolves).
IsSuccess(o) == o.k = "response" /\ o.status >= 200 /\ o.status < 300

\* The AxiosError axios rejects with for a wire outcome that is not a success.
AxiosErrorOf(o) ==
    IF o.k = "response"
    THEN ErrorObject("AxiosError", TRUE, Str(S_requestFailed),
                     Str(IF o.status >= 500 THEN S_ERR_BAD_RESPONSE ELSE S_ERR_BAD_REQUEST),
                     Response(o.status, o.data, o.headers), TRUE)
    ELSE ErrorObject("AxiosError", TRUE, o.message, o.code, NoResponse, TRUE)

\* What axios rejects with when the request's signal aborts: a CanceledError
\* (an AxiosError), or, with a legacy axios, a Cancel object.
CancelErrorOf(legacy) ==
    IF legacy
    THEN ErrorObject("Cancel", FALSE, Str(S_canceled), Undefined, NoResponse, FALSE)
    ELSE ErrorObject("CanceledError", TRUE, Str(S_canceled), Str(S_ERR_CANCELED), NoResponse, TRUE)

\* ------------------------------------------------------------ rethrowError
\* How a call completes: it throws `value` or returns it; `warns` counts the
\* logger.warn entries written on the way, `calls` the custom handler's
\* invocations as <<status, body>>.
Throw(v, warns) == [type |-> "throw", value |-> v, warns |-> warns, calls |-> <<>>]
Return(v) == [type |-> "return", value |-> v, warns |-> 0, calls |-> <<>>]
Pending == [type |-> "pending", value |-> Undefined, warns |-> 0, calls |-> <<>>]

\* JavaScript truthiness of a configured handler, map or constructor.
Truthy(x) == ~IsNullish(x)

\* isUltrasaErrorBody: an object with a string name and a string message.
IsUltrasaErrorBody(body) ==
    /\ body.t = "object"
    /\ IsString(body.name)
    /\ IsString(body.message)

\* `${name}: ${message}`
ServiceMessage(name, message) == Str(name.v \o S_colon \o message.v)


\* The no-response branch without the timeout test: every failure a NetworkError.
TransportFailureBranch_noTimeout(error) ==
    Throw(TypedError("NetworkError",
                     IF IsNullish(error.message) THEN error.code ELSE error.message), 0)

\* The no-response branch taking the code before the message (code ?? message).
TransportFailureBranch_codeFirst(error) ==
    IF IsString(error.message) /\ StartsWith(error.message.v, S_timeout)
    THEN Throw(TypedError("TimeoutError", error.message), 1)
    ELSE Throw(TypedError("NetworkError",
                          IF IsNullish(error.code) THEN error.message ELSE error.code), 0)


\* The transport-failure branch writing a warning for the NetworkError too.
TransportFailureBranch_warnsNetwork(error) ==
    IF IsString(error.message) /\ StartsWith(error.message.v, S_timeout)
    THEN Throw(TypedError("TimeoutError", error.message), 1)
    ELSE Throw(TypedError("NetworkError",
                          IF IsNullish(error.message) THEN error.code ELSE error.message), 1)

\* No response was received: timeout by the message's prefix, else NetworkError
\* with message ?? code.
TransportFailureBranch(error) ==
    IF IsString(error.message) /\ StartsWith(error.message.v, S_timeout)
    THEN Throw(TypedError("TimeoutError", error.message), 1)
    ELSE Throw(TypedError("NetworkError",
                          IF IsNullish(error.message) THEN error.code ELSE error.message), 0)

\* The custom handler called with (status, body): "throws" raises its own
\* error, "returns" returns undefined.
InvokeHandler(h, status, body) ==
    IF h.name = "throws"
    THEN [raised |-> TRUE, value |-> HandlerError(h.name, status, body)]
    ELSE [raised |-> FALSE, value |-> Undefined]


\* The handler branch rethrowing the original error when the handler returns.
HandlerBranch_fallThrough(error, errorHandler) ==
    LET r == InvokeHandler(errorHandler, error.response.status, error.response.data)
    IN  [type |-> "throw",
         value |-> IF r.raised THEN r.value ELSE error,
         warns |-> 0,
         calls |-> << <<error.response.status, error.response.data>> >>]

\* throw this.errorHandler(status, body): what the handler raises, or else the
\* value it returned, is thrown.
HandlerBranch(error, errorHandler) ==
    [type |-> "throw",
     value |-> InvokeHandler(errorHandler, error.response.status, error.response.data).value,
     warns |-> 0,
     calls |-> << <<error.response.status, error.response.data>> >>]

\* this.errorConstructors?.errorNameToConstructor
NameMapOf(errorConstructors) ==
    IF IsNullish(errorConstructors) THEN Undefined ELSE errorConstructors.errorNameToConstructor
\* this.errorConstructors?.serviceErrorConstructor
ServiceCtorOf(errorConstructors) ==
    IF IsNullish(errorConstructors) THEN Undefined ELSE errorConstructors.serviceErrorConstructor


\* The envelope branch building the mapped constructor with `${name}: ${message}`.
EnvelopeBranch_prefixed(body, errorConstructors) ==
    LET map == NameMapOf(errorConstructors)
        svc == ServiceCtorOf(errorConstructors)
        constructor == IF Truthy(map) THEN MapGet(map, body.name.v) ELSE Undefined
        w == IF Truthy(map) THEN 1 ELSE 0
    IN  IF Truthy(map) /\ constructor # Undefined
        THEN Throw(TypedError(constructor.name, ServiceMessage(body.name, body.message)), w)
        ELSE IF Truthy(svc)
             THEN Throw(TypedError(svc.name, ServiceMessage(body.name, body.message)), w + 1)
             ELSE Throw(TypedError("Error", ServiceMessage(body.name, body.message)), w + 1)


\* The envelope branch building the fallback constructor with the bare message.
EnvelopeBranch_bareFallback(body, errorConstructors) ==
    LET map == NameMapOf(errorConstructors)
        svc == ServiceCtorOf(errorConstructors)
        constructor == IF Truthy(map) THEN MapGet(map, body.name.v) ELSE Undefined
        w == IF Truthy(map) THEN 1 ELSE 0
    IN  IF Truthy(map) /\ constructor # Undefined
        THEN Throw(TypedError(constructor.name, body.message), w)
        ELSE IF Truthy(svc)
             THEN Throw(TypedError(svc.name, body.message), w + 1)
             ELSE Throw(TypedError("Error", ServiceMessage(body.name, body.message)), w + 1)

\* MessageOrEmpty without the typeof test: the member as it is.
MessageOrEmpty_raw(body) == MessageOf(body)

\* The body is a first-party envelope.
EnvelopeBranch(body, errorConstructors) ==
    LET map == NameMapOf(errorConstructors)
        svc == ServiceCtorOf(errorConstructors)
        constructor == IF Truthy(map) THEN MapGet(map, body.name.v) ELSE Undefined
        w == IF Truthy(map) THEN 1 ELSE 0
    IN  IF Truthy(map) /\ constructor # Undefined
        THEN Throw(TypedError(constructor.name, body.message), w)
        ELSE IF Truthy(svc)
             THEN Throw(TypedError(svc.name, ServiceMessage(body.name, body.message)), w + 1)
             ELSE Throw(TypedError("Error", ServiceMessage(body.name, body.message)), w + 1)

\* typeof message === 'string' ? message : ''
MessageOrEmpty(body) ==
    LET message == MessageOf(body) IN IF IsString(message) THEN message ELSE Str(<<>>)


\* StatusBranch without the final `throw error`: the unmatched response falls
\* off the end and rethrowError returns.
StatusBranch_noRethrow(error) ==
    IF error.response.status = 403
    THEN Throw(TypedError("UnauthenticatedError", MessageOrEmpty(error.response.data)), 1)
    ELSE IF error.response.status = 404
         THEN Throw(TypedError("EndpointNotFoundError", MessageOrEmpty(error.response.data)), 1)
         ELSE Return(Undefined)


\* The status branch rethrowing a copy of the error whose response has lost
\* its headers.
StatusBranch_rebuilt(error) ==
    IF error.response.status = 403
    THEN Throw(TypedError("UnauthenticatedError", MessageOrEmpty(error.response.data)), 1)
    ELSE IF error.response.status = 404
         THEN Throw(TypedError("EndpointNotFoundError", MessageOrEmpty(error.response.data)), 1)
         ELSE Throw([error EXCEPT !.response.headers = Headers(Undefined)], 0)

\* A response that is no envelope: 403, 404, or the original error again.
StatusBranch(error) ==
    IF error.response.status = 403
    THEN Throw(TypedError("UnauthenticatedError", MessageOrEmpty(error.response.data)), 1)
    ELSE IF error.response.status = 404
         THEN Throw(TypedError("EndpointNotFoundError", MessageOrEmpty(error.response.data)), 1)
         ELSE Throw(error, 0)


\* The non-axios branch without the 'canceled' test: the Cancel is rethrown.
NonAxiosBranch_noCancel(error) == Throw(error, 0)


\* The non-axios branch wrapping whatever it is given in a NetworkError.
NonAxiosBranch_wrapAll(error) == Throw(TypedError("NetworkError", error.message), 0)

\* Not an axios error: a legacy Cancel, or anything else thrown in send.
NonAxiosBranch(error) ==
    IF error.message = Str(S_canceled)
    THEN Throw(TypedError("NetworkError", error.message), 0)
    ELSE Throw(error, 0)


\* rethrowError with the envelope rule tried before the custom handler.
RethrowError_envelopeFirst(error, errorHandler, errorConstructors) ==
    IF error.isAxiosError
    THEN IF error.response = NoResponse
         THEN TransportFailureBranch(error)
         ELSE IF IsUltrasaErrorBody(error.response.data)
              THEN EnvelopeBranch(error.response.data, errorConstructors)
              ELSE IF Truthy(errorHandler)
                   THEN HandlerBranch(error, errorHandler)
                   ELSE StatusBranch(error)
    ELSE NonAxiosBranch(error)


\* rethrowError with the status rules tried before the envelope rule.
RethrowError_statusFirst(error, errorHandler, errorConstructors) ==
    IF error.isAxiosError
    THEN IF error.response = NoResponse
         THEN TransportFailureBranch(error)
         ELSE IF Truthy(errorHandler)
              THEN HandlerBranch(error, errorHandler)
              ELSE IF error.response.status \in {403, 404}
                   THEN StatusBranch(error)
                   ELSE IF IsUltrasaErrorBody(error.response.data)
                        THEN EnvelopeBranch(error.response.data, errorConstructors)
                        ELSE StatusBranch(error)
    ELSE NonAxiosBranch(error)

RethrowError(error, errorHandler, errorConstructors) ==
    IF error.isAxiosError
    THEN IF error.response = NoResponse
         THEN TransportFailureBranch(error)
         ELSE IF Truthy(errorHandler)
              THEN HandlerBranch(error, errorHandler)
              ELSE IF IsUltrasaErrorBody(error.response.data)
                   THEN EnvelopeBranch(error.response.data, errorConstructors)
                   ELSE StatusBranch(error)
    ELSE NonAxiosBranch(error)

\* The catch block of send: rethrowError never returns, so send rejects; were
\* it to return, send would resolve with undefined.
SendCatch(error, errorHandler, errorConstructors) ==
    LET c == RethrowError(error, errorHandler, errorConstructors)
    IN  IF c.type = "throw" THEN c ELSE [c EXCEPT !.type = "return", !.value = Undefined]

\* ------------------------------------------------------------ retry policy
SupportedMethods == {S_GET, S_DELETE, S_POST, S_PUT, S_PATCH}
S_OPTIONS == <<"O","P","T","I","O","N","S">>
IdempotentMethods == {S_GET, S_HEAD, S_OPTIONS, S_PUT, S_DELETE}
Methods == SupportedMethods \cup {S_HEAD}


\* The retries taken as the number of attempts to make after the first.
Retries_onePlus(props) ==
    IF /\ ~props.hasInstance
       /\ props.maximumRetry.t = "number"
       /\ props.maximumRetry.v > 0
    THEN props.maximumRetry.v + 1
    ELSE 0

\* The retries installed whether or not the caller supplied the instance.
Retries_ignoresInstance(props) ==
    IF /\ props.maximumRetry.t = "number"
       /\ props.maximumRetry.v > 0
    THEN props.maximumRetry.v
    ELSE 0

\* The retries axiosRetry is installed with by the constructor (0: not installed).
Retries(props) ==
    IF /\ ~props.hasInstance
       /\ props.maximumRetry.t = "number"
       /\ props.maximumRetry.v > 0
    THEN props.maximumRetry.v
    ELSE 0

\* axios-retry's isNetworkError: no response, a code, and neither a timeout
\* (ECONNABORTED) nor a cancellation.
IsNetworkError(error) ==
    /\ error.response = NoResponse
    /\ ~IsNullish(error.code)
    /\ error.code.v \notin {S_ERR_CANCELED, S_ECONNABORTED}


\* axios-retry's isRetryableError: not a timeout, and no response or a 5xx one.
IsRetryableError(error) ==
    /\ error.code # Str(S_ECONNABORTED)
    /\ \/ error.response = NoResponse
       \/ (error.response.status >= 500 /\ error.response.status <= 599)

IsIdempotentRequestError(error, method) ==
    method \in IdempotentMethods /\ IsRetryableError(error)

\* The default retryCondition: a network error, or a 5xx error on an idempotent
\* request.
RetryCondition(error, method) ==
    IsNetworkError(error) \/ IsIdempotentRequestError(error, method)


\* axios-retry's response interceptor: retry while retries remain.
ShouldRetry(error, method, retryCount, retries) ==
    /\ error.hasConfig
    /\ retryCount < retries
    /\ RetryCondition(error, method)

\* retryDelay: axiosRetry.exponentialDelay, 2^retryNumber * 100 ms before jitter.
ExponentialDelay(retryNumber) == (2 ^ retryNumber) * 100
\* Milliseconds charged to the timeout on top of the delay: the duration of
\* the attempt that failed (lastRequestDuration) and the jitter of the delay.
Elapsed == {0, 100}

\* shouldResetTimeout is not set: the interceptor takes the duration of the
\* failed attempt and the delay off config.timeout before it retries.
TimeoutLeft(timeout, elapsed, retryNumber) ==
    timeout - elapsed - ExponentialDelay(retryNumber)
\* The timeout is a budget only when config.timeout is set (0: none).
TimeoutUsedUp(timeout, elapsed, retryNumber) ==
    timeout > 0 /\ TimeoutLeft(timeout, elapsed, retryNumber) <= 0
\* config.timeout of the retried request; a build that does not give the
\* retry up runs it under at least 1 ms.
RetryTimeout(timeout, elapsed, retryNumber) ==
    IF timeout > 0
    THEN IF TimeoutLeft(timeout, elapsed, retryNumber) > 1
         THEN TimeoutLeft(timeout, elapsed, retryNumber)
         ELSE 1
    ELSE timeout

\* ------------------------------------------------------------------ state
VARIABLES
    props,              \* AxiosHttpClientProps the client was constructed with
    legacyAxios,        \* the axios build rejects an aborted request with a Cancel
    clampsTimeout,      \* the axios-retry build retries under 1 ms when the timeout is used up
    errorHandler,       \* this.errorHandler
    errorConstructors,  \* this.errorConstructors
    request,            \* the HttpRequest of the send in progress
    aborted,            \* request.signal.aborted
    pc,                 \* "idle" | "inflight" | "backoff" | "answered" | "rejected" | "done"
    attempts,           \* attempts handed to the wire by this send
    retryCount,         \* axios-retry's retryCount of this request
    history,            \* per wire attempt: the response status, 0 without a response
    lastWire,           \* what the wire did with the last attempt
    lastError,          \* the error the request last rejected with
    completion,         \* how send completed
    config,             \* the AxiosRequestConfig axios works on for this send
    query,              \* the caller's query mapping, as it is now
    lastConfigure,      \* history: the argument of the last configure call of each kind
    sends               \* the sends running side by side on the client, by caller

vars == <<props, legacyAxios, clampsTimeout, errorHandler, errorConstructors, request, aborted, pc,
          attempts, retryCount, history, lastWire, lastError, completion,
          config, query, lastConfigure, sends>>

clientVars == <<props, legacyAxios, clampsTimeout>>
configVars == <<errorHandler, errorConstructors, lastConfigure>>

MaximumRetries == {Undefined, Num(-1), Num(0), Num(MaxRetry)}
\* Clients built by the constructor itself, and one built around a
\* caller-supplied axios instance.
ClientProps ==
    [maximumRetry : MaximumRetries, hasInstance : {FALSE},
     timeout : {Undefined}, interceptors : {Undefined}]
    \cup [maximumRetry : {Num(MaxRetry)}, hasInstance : {TRUE},
          timeout : {Undefined}, interceptors : {Undefined}]
\* The builds of the libraries a client is run with: the retry interceptor's
\* build shows only where it is installed; the older axios is paired with the
\* clients that state no retry or the most retries.
RetryBuilds(p) == IF Retries(p) > 0 THEN BOOLEAN ELSE {FALSE}
LegacyBuilds(p) ==
    IF ~p.hasInstance /\ p.maximumRetry \in {Undefined, Num(MaxRetry)} THEN BOOLEAN ELSE {FALSE}
NoWire == [k |-> "none"]
WireCancelled == [k |-> "cancel"]
NoRequest == [method |-> <<>>, hasSignal |-> FALSE, timeout |-> Undefined, query |-> Undefined]
\* The requests of the sends: every method with and without a signal; a
\* timeout on those of one idempotent and one other method.
Requests ==
    [method : Methods, hasSignal : BOOLEAN, timeout : {Undefined}, query : {Undefined}]
    \cup [method : {S_GET, S_POST}, hasSignal : BOOLEAN, timeout : {Num(500)},
          query : {Undefined}]
NoConfigure == [handler |-> Undefined, constructor |-> Undefined]
\* The handler and constructors of the client at some moment.
ActiveConfiguration(handler, constructors) ==
    [handler |-> handler, constructors |-> constructors]
\* The sends of the callers, none of them started.
SendIds == 1..MaxSends
IdleSend ==
    [pc |-> "idle", sentUnder |-> ActiveConfiguration(Undefined, Undefined),
     outcome |-> NoWire, completion |-> Pending]
NoSends == [i \in SendIds |-> IdleSend]
\* The catch block of the send has not run.


\* ------------------------------------------------- the request's config
\* A query mapping (or the params of a config): a set of <<key, value>> entries.
Mapping(entries) == [t |-> "mapping", entries |-> entries]
\* object[key] = value
Put(entries, key, value) == {e \in entries : e[1] # key} \cup {<<key, value>>}
\* { ...query }: a new object holding the entries of query (none of undefined).
Spread(q) == IF q.t = "mapping" THEN q.entries ELSE {}

\* A config built around the caller's own query object: params is request.query.
BuildConfig_inPlace(req) ==
    [params |-> [alias |-> req.query.t = "mapping", entries |-> Spread(req.query)],
     timeout |-> req.timeout]

\* The config send hands to axios: params is a copy of request.query, timeout
\* is request.timeout.  `alias` tells whether params is the caller's own object.
BuildConfig(req) ==
    [params |-> [alias |-> FALSE, entries |-> Spread(req.query)],
     timeout |-> req.timeout]

\* The timeout of the client's axios instance: props.timeout when the
\* constructor creates the instance (axios' default is 0, no timeout); a
\* caller-supplied instance keeps its own, here axios' default.
DefaultTimeout(p) ==
    IF ~p.hasInstance /\ p.timeout.t = "number" THEN p.timeout.v ELSE 0
\* The merge taking the smaller of the two timeouts when both are set.
MergedTimeout_minimum(requestTimeout, defaultTimeout) ==
    IF requestTimeout.t = "number"
    THEN IF defaultTimeout > 0 /\ defaultTimeout < requestTimeout.v
         THEN defaultTimeout
         ELSE requestTimeout.v
    ELSE defaultTimeout

\* axios merges the request's config over the instance's defaults: a timeout
\* that is not undefined replaces the default.
MergedTimeout(requestTimeout, defaultTimeout) ==
    IF requestTimeout.t = "number" THEN requestTimeout.v ELSE defaultTimeout
MergeConfig(defaultTimeout, cfg) ==
    [cfg EXCEPT !.timeout = MergedTimeout(cfg.timeout, defaultTimeout)]

\* A request interceptor that sets a query parameter on the config it is given.
S_token == <<"t","o","k","e","n">>
S_secret == <<"s","e","c","r","e","t">>
SetsParam == [t |-> "function", name |-> "setsParam"]
\* The constructor installs props.interceptors on the instance it creates.
InterceptorsInstalled(p) == ~p.hasInstance /\ Truthy(p.interceptors)
\* The request interceptors run on the config each time it is handed to axios.
Intercept(p, cfg) ==
    IF InterceptorsInstalled(p)
    THEN [cfg EXCEPT !.params.entries = Put(@, S_token, S_secret)]
    ELSE cfg
\* What the caller's query mapping holds once the dispatch path has written
\* the params of cfg.
WrittenThrough(cfg, q) ==
    IF cfg.params.alias THEN Mapping(cfg.params.entries) ELSE q
NoConfig == [params |-> [alias |-> FALSE, entries |-> {}], timeout |-> 0]

\* Clients and requests that differ in timeout, interceptors and query.
S_page == <<"p","a","g","e">>
S_one == <<"1">>
Timeouts == {Undefined, Num(100), Num(500)}
Queries == {Undefined, Mapping({}), Mapping({<<S_page, S_one>>}),
            Mapping({<<S_token, S_one>>})}
RequestProps ==
    [maximumRetry : {Undefined, Num(1)}, hasInstance : BOOLEAN,
     timeout : Timeouts, interceptors : {Undefined, SetsParam}]
RequestInputs ==
    [method : {S_GET, S_POST, S_HEAD}, hasSignal : BOOLEAN,
     timeout : Timeouts, query : Queries]

Init ==
    /\ props \in ClientProps
    /\ legacyAxios \in LegacyBuilds(props)
    /\ clampsTimeout \in RetryBuilds(props)
    /\ errorHandler = Undefined
    /\ errorConstructors = Undefined
    /\ request = NoRequest
    /\ aborted = FALSE
    /\ pc = "idle"
    /\ attempts = 0
    /\ retryCount = 0
    /\ history = <<>>
    /\ lastWire = NoWire
    /\ lastError = NoError
    /\ completion = Pending
    /\ config = NoConfig
    /\ query = Undefined
    /\ lastConfigure = NoConfigure
    /\ sends = NoSends


\* configure resetting the value of the other kind.
Configure_clobber(configuration) ==
    /\ IF configuration.type = "http-error-handler"
       THEN /\ errorHandler' = configuration.handler
            /\ lastConfigure' = [lastConfigure EXCEPT !.handler = configuration]
            /\ errorConstructors' = Undefined
       ELSE IF configuration.type = "error-constructor"
            THEN /\ errorConstructors' =
                        [t |-> "object",
                         errorNameToConstructor |-> configuration.errorNameToConstructor,
                         serviceErrorConstructor |-> configuration.serviceErrorConstructor]
                 /\ lastConfigure' = [lastConfigure EXCEPT !.constructor = configuration]
                 /\ errorHandler' = Undefined
            ELSE UNCHANGED <<errorHandler, errorConstructors, lastConfigure>>
    /\ UNCHANGED <<clientVars, sends, request, aborted, pc, attempts, retryCount, history,
                   lastWire, lastError, completion, config, query>>

\* configure(config): callable at any moment, also while a send is pending.
Configure(configuration) ==
    /\ IF configuration.type = "http-error-handler"
       THEN /\ errorHandler' = configuration.handler
            /\ lastConfigure' = [lastConfigure EXCEPT !.handler = configuration]
            /\ UNCHANGED errorConstructors
       ELSE IF configuration.type = "error-constructor"
            THEN /\ errorConstructors' =
                        [t |-> "object",
                         errorNameToConstructor |-> configuration.errorNameToConstructor,
                         serviceErrorConstructor |-> configuration.serviceErrorConstructor]
                 /\ lastConfigure' = [lastConfigure EXCEPT !.constructor = configuration]
                 /\ UNCHANGED errorHandler
            ELSE UNCHANGED <<errorHandler, errorConstructors, lastConfigure>>
    /\ UNCHANGED <<clientVars, sends, request, aborted, pc, attempts, retryCount, history,
                   lastWire, lastError, completion, config, query>>

\* An attempt (or the request before any attempt) rejected with `error` while
\* axios worked on cfg: the retry interceptor counts a retry and schedules it
\* under what is left of the timeout, gives it up when nothing is left, or the
\* promise send awaits rejects; the catch block of send runs later, when the
\* await resumes.
Rejected(error, method, cfg) ==
    /\ lastError' = error
    /\ completion' = Pending
    /\ IF ShouldRetry(error, method, retryCount, Retries(props))
       THEN \E elapsed \in Elapsed :
                /\ retryCount' = retryCount + 1
                /\ IF TimeoutUsedUp(cfg.timeout, elapsed, retryCount + 1) /\ ~clampsTimeout
                   THEN /\ pc' = "rejected"
                        /\ config' = cfg
                   ELSE /\ pc' = "backoff"
                        /\ config' = [cfg EXCEPT !.timeout =
                                          RetryTimeout(@, elapsed, retryCount + 1)]
       ELSE /\ pc' = "rejected"
            /\ retryCount' = retryCount
            /\ config' = cfg

\* axios checks the signal before it hands a request to the wire.
CancelledBeforeDispatch(hasSignal, isAborted) == hasSignal /\ isAborted

\* The request is handed to axios: the request interceptors run on its config,
\* then it goes on the wire, unless its signal has already aborted.
Dispatch(req, isAborted) ==
    /\ query' = WrittenThrough(Intercept(props, config), query)
    /\ IF CancelledBeforeDispatch(req.hasSignal, isAborted)
       THEN /\ Rejected(CancelErrorOf(legacyAxios), req.method, Intercept(props, config))
            /\ UNCHANGED <<attempts, history, lastWire>>
       ELSE /\ config' = Intercept(props, config)
            /\ pc' = "inflight"
            /\ attempts' = attempts + 1
            /\ UNCHANGED <<retryCount, history, lastWire, lastError, completion>>

\* send(request), up to its first await: the request is handed to axios and
\* the promise is pending; an unsupported method throws inside the try block
\* and the catch block runs before send returns.  pc follows one call of send
\* from start to settlement; calls that overlap share nothing but the
\* configuration and are the sends of SpecConcurrent.
Send(req, preAborted) ==
    /\ pc = "idle"
    /\ preAborted => req.hasSignal
    /\ request' = req
    /\ aborted' = preAborted
    /\ lastWire' = NoWire
    /\ attempts' = IF req.method \in SupportedMethods /\ ~preAborted THEN 1 ELSE 0
    /\ history' = <<>>
    /\ IF req.method \in SupportedMethods
       THEN LET cfg == Intercept(props, MergeConfig(DefaultTimeout(props), BuildConfig(req)))
            IN  /\ query' = WrittenThrough(cfg, req.query)
                /\ IF CancelledBeforeDispatch(req.hasSignal, preAborted)
                   THEN Rejected(CancelErrorOf(legacyAxios), req.method, cfg)
                   ELSE /\ config' = cfg
                        /\ pc' = "inflight"
                        /\ retryCount' = 0
                        /\ lastError' = NoError
                        /\ completion' = Pending
       ELSE LET error == ErrorObject("IllegalArgumentError", FALSE,
                                     Str(S_invalidMethod \o req.method \o S_dot),
                                     Undefined, NoResponse, FALSE)
            IN  /\ config' = NoConfig
                /\ query' = req.query
                /\ pc' = "done"
                /\ retryCount' = 0
                /\ lastError' = error
                /\ completion' = SendCatch(error, errorHandler, errorConstructors)
    /\ UNCHANGED <<clientVars, sends, configVars>>

\* send returning the axios response itself instead of its data.
Resolved_wholeResponse(o) == Return([body |-> o])

\* return { body: resp.data }
Resolved(o) == Return([body |-> o.data])

\* The wire answers the attempt in flight: on a success the promise send
\* awaits is fulfilled, and send returns later, when the await resumes.
Respond(o) ==
    /\ pc = "inflight"
    /\ history' = Append(history, IF o.k = "response" THEN o.status ELSE 0)
    /\ lastWire' = o
    /\ IF IsSuccess(o)
       THEN /\ pc' = "answered"
            /\ UNCHANGED <<retryCount, lastError, completion, config>>
       ELSE Rejected(AxiosErrorOf(o), request.method, config)
    /\ UNCHANGED <<clientVars, sends, configVars, request, aborted, attempts, query>>

\* The caller aborts the request's signal: an attempt in flight rejects as
\* cancelled; during a backoff wait only the signal changes.
Abort ==
    /\ request.hasSignal
    /\ ~aborted
    /\ pc \in {"inflight", "backoff"}
    /\ aborted' = TRUE
    /\ IF pc = "inflight"
       THEN /\ history' = Append(history, 0)
            /\ lastWire' = WireCancelled
            /\ Rejected(CancelErrorOf(legacyAxios), request.method, config)
       ELSE UNCHANGED <<pc, retryCount, history, lastWire, lastError, completion, config>>
    /\ UNCHANGED <<clientVars, sends, configVars, request, attempts, query>>

\* The backoff delay is over: the request is handed to axios again.
RetryFire ==
    /\ pc = "backoff"
    /\ Dispatch(request, aborted)
    /\ UNCHANGED <<clientVars, sends, configVars, request, aborted>>

\* The await of send resumes with the response: send returns its body.
ReturnBody ==
    /\ pc = "answered"
    /\ pc' = "done"
    /\ completion' = Resolved(lastWire)
    /\ UNCHANGED <<clientVars, sends, configVars, request, aborted, attempts, retryCount,
                   history, lastWire, lastError, config, query>>

\* The await of send resumes with the rejection: the catch block runs
\* rethrowError under the handler and constructors of this moment.
Catch ==
    /\ pc = "rejected"
    /\ pc' = "done"
    /\ completion' = SendCatch(lastError, errorHandler, errorConstructors)
    /\ UNCHANGED <<clientVars, sends, configVars, request, aborted, attempts, retryCount,
                   history, lastWire, lastError, config, query>>

\* The caller receives the settled promise of send.
Collect ==
    /\ pc = "done"
    /\ pc' = "idle"
    /\ request' = NoRequest
    /\ aborted' = FALSE
    /\ attempts' = 0
    /\ retryCount' = 0
    /\ history' = <<>>
    /\ lastWire' = NoWire
    /\ lastError' = NoError
    /\ completion' = Pending
    /\ config' = NoConfig
    /\ query' = Undefined
    /\ UNCHANGED <<clientVars, sends, configVars>>

Next ==
    \/ \E configuration \in Configurations : Configure(configuration)
    \/ \E req \in Requests, preAborted \in BOOLEAN : Send(req, preAborted)
    \/ \E o \in WireOutcomes(config.timeout) : Respond(o)
    \/ Abort
    \/ RetryFire
    \/ ReturnBody
    \/ Catch
    \/ Collect

Spec == Init /\ [][Next]_vars

\* The same client, constructed and called with the timeouts, interceptors and
\* query mappings of RequestProps and RequestInputs, and never configured.
InitRequest ==
    /\ props \in RequestProps
    /\ legacyAxios = FALSE
    /\ clampsTimeout \in RetryBuilds(props)
    /\ errorHandler = Undefined
    /\ errorConstructors = Undefined
    /\ request = NoRequest
    /\ aborted = FALSE
    /\ pc = "idle"
    /\ attempts = 0
    /\ retryCount = 0
    /\ history = <<>>
    /\ lastWire = NoWire
    /\ lastError = NoError
    /\ completion = Pending
    /\ config = NoConfig
    /\ query = Undefined
    /\ lastConfigure = NoConfigure
    /\ sends = NoSends

NextRequest ==
    \/ \E req \in RequestInputs, preAborted \in BOOLEAN : Send(req, preAborted)
    \/ \E o \in WireOutcomes(config.timeout) : Respond(o)
    \/ Abort
    \/ RetryFire
    \/ ReturnBody
    \/ Catch
    \/ Collect

SpecRequest == InitRequest /\ [][NextRequest]_vars

\* ------------------------------------------------------- concurrent sends
\* Several callers send on one client while it is being configured.  Each send
\* awaits its attempt and, on a failure, classifies it in its catch block.

\* The configuration the catch block classifies under, taken at call time.
ClassifyUnder_snapshot(send, handler, constructors) == send.sentUnder

\* The configuration the catch block classifies under: rethrowError reads
\* this.errorHandler and this.errorConstructors when it runs.
ClassifyUnder(send, handler, constructors) == ActiveConfiguration(handler, constructors)

\* The configure calls and wire outcomes of the concurrent sends.
ConcurrentConfigurations ==
    {c \in Configurations :
        \/ c.type = "http-error-handler" /\ c.handler = Handler("throws")
        \/ /\ c.type = "error-constructor"
           /\ \/ /\ c.errorNameToConstructor = MapOf([n \in {S_SystemError} |-> Ctor("NetworkError")])
                 /\ c.serviceErrorConstructor = Ctor("MockServiceError")
              \/ /\ c.errorNameToConstructor = MapOf([n \in {S_X} |-> Ctor("NetworkError")])
                 /\ c.serviceErrorConstructor = Ctor("MockServiceError")}
ConcurrentOutcomes ==
    {o \in WireOutcomes(0) :
        \/ o.k = "failure" /\ o.message = Str(S_Error)
        \/ /\ o.k = "response"
           /\ \/ o.status = 200 /\ o.data = Str(S_anErrorMessage)
              \/ o.status = 404 /\ o.data = Obj(Str(S_SystemError), Str(S_mockErrorMessage))}


\* Caller i calls send: the attempt goes on the wire.  sentUnder is history:
\* the configuration in effect at the call.
ConcurrentSend(i) ==
    /\ sends[i].pc = "idle"
    /\ sends' = [sends EXCEPT ![i] =
                    [pc |-> "inflight",
                     sentUnder |-> ActiveConfiguration(errorHandler, errorConstructors),
                     outcome |-> NoWire,
                     completion |-> Pending]]
    /\ UNCHANGED <<clientVars, configVars, request, aborted, pc, attempts, retryCount,
                   history, lastWire, lastError, completion, config, query>>

\* The wire answers the attempt of caller i: the promise its send awaits is
\* fulfilled or rejects; send returns, or its catch block runs, later.
ConcurrentRespond(i, o) ==
    /\ sends[i].pc = "inflight"
    /\ sends' = [sends EXCEPT ![i] =
                    IF IsSuccess(o)
                    THEN [@ EXCEPT !.pc = "answered", !.outcome = o]
                    ELSE [@ EXCEPT !.pc = "rejected", !.outcome = o]]
    /\ UNCHANGED <<clientVars, configVars, request, aborted, pc, attempts, retryCount,
                   history, lastWire, lastError, completion, config, query>>

\* The await of caller i's send resumes with the response: send returns.
ConcurrentReturn(i) ==
    /\ sends[i].pc = "answered"
    /\ sends' = [sends EXCEPT ![i] =
                    [@ EXCEPT !.pc = "done", !.completion = Resolved(sends[i].outcome)]]
    /\ UNCHANGED <<clientVars, configVars, request, aborted, pc, attempts, retryCount,
                   history, lastWire, lastError, completion, config, query>>

\* The catch block of caller i's send classifies the failure.
ConcurrentCatch(i) ==
    /\ sends[i].pc = "rejected"
    /\ sends' = [sends EXCEPT ![i] =
                    [@ EXCEPT !.pc = "done",
                              !.completion =
                                  LET under == ClassifyUnder(sends[i], errorHandler,
                                                             errorConstructors)
                                  IN  SendCatch(AxiosErrorOf(sends[i].outcome), under.handler,
                                                under.constructors)]]
    /\ UNCHANGED <<clientVars, configVars, request, aborted, pc, attempts, retryCount,
                   history, lastWire, lastError, completion, config, query>>

\* Caller i receives the settled promise.
ConcurrentCollect(i) ==
    /\ sends[i].pc = "done"
    /\ sends' = [sends EXCEPT ![i] = IdleSend]
    /\ UNCHANGED <<clientVars, configVars, request, aborted, pc, attempts, retryCount,
                   history, lastWire, lastError, completion, config, query>>

InitConcurrent ==
    /\ props = [maximumRetry |-> Undefined, hasInstance |-> FALSE,
                timeout |-> Undefined, interceptors |-> Undefined]
    /\ legacyAxios = FALSE
    /\ clampsTimeout = FALSE
    /\ errorHandler = Undefined
    /\ errorConstructors = Undefined
    /\ request = NoRequest
    /\ aborted = FALSE
    /\ pc = "idle"
    /\ attempts = 0
    /\ retryCount = 0
    /\ history = <<>>
    /\ lastWire = NoWire
    /\ lastError = NoError
    /\ completion = Pending
    /\ config = NoConfig
    /\ query = Undefined
    /\ lastConfigure = NoConfigure
    /\ sends = NoSends

NextConcurrent ==
    \/ \E configuration \in ConcurrentConfigurations : Configure(configuration)
    \/ \E i \in SendIds : ConcurrentSend(i)
    \/ \E i \in SendIds, o \in ConcurrentOutcomes : ConcurrentRespond(i, o)
    \/ \E i \in SendIds : ConcurrentReturn(i)
    \/ \E i \in SendIds : ConcurrentCatch(i)
    \/ \E i \in SendIds : ConcurrentCollect(i)

SpecConcurrent == InitConcurrent /\ [][NextConcurrent]_vars


\* ------------------------------------------------------------------ claims
\* The last wire attempt of the send was answered with a 2xx response.
LastSucceeded == history # <<>> /\ history[Len(history)] \in 200..299
\* The send has settled, and not on a success.
Failed == pc = "done" /\ ~LastSucceeded
\* The response of the terminal error, when one was received.
HasResponse(error) == error.t = "original" /\ error.response # NoResponse
\* maximumRetry given as a number N >= 0 to the constructor's own axios instance.
RetryN == IF ~props.hasInstance /\ props.maximumRetry.t = "number" /\ props.maximumRetry.v >= 0
          THEN props.maximumRetry.v ELSE -1
AllAre(seq, status) == \A i \in 1..Len(seq) : seq[i] = status
\* The step in which a send settles: it resolves, or its catch block has run
\* under the handler and constructors of that moment.
Settles == pc # "done" /\ pc' = "done"



\* C1: whenever a dispatch fails (a transport failure of any kind, an error
\* response of any status and body, any error-resolution configuration), send
\* does not return normally: it completes by throwing, once.
C1_FailureAlwaysRaised ==
    Failed => /\ completion.type = "throw"
              /\ Len(completion.calls) <= 1

\* C1 witness: an error response was classified while a custom handler that
\* returns without raising was configured, and send still threw.
C1_Witness ==
    /\ Failed
    /\ HasResponse(lastError)
    /\ errorHandler = Handler("returns")
    /\ completion.type = "throw"

\* What C2_HandlerPrecedence asks of the state a send settles in.
C2_Settled ==
    (Failed /\ Truthy(errorHandler)) =>
        IF HasResponse(lastError)
        THEN /\ completion.calls = << <<lastWire.status, lastWire.data>> >>
             /\ completion.type = "throw"
             /\ errorHandler.name = "throws" =>
                    completion.value = HandlerError("throws", lastWire.status, lastWire.data)
        ELSE /\ completion.calls = <<>>
             /\ completion = SendCatch(lastError, Undefined, errorConstructors)
             /\ lastError.name \in {"AxiosError", "CanceledError", "Cancel"} =>
                    /\ completion.value.t = "typed"
                    /\ completion.value.ctor \in {"TimeoutError", "NetworkError"}

\* C2: with a custom handler configured, every error response (403, 404 and
\* envelope bodies included) is resolved by one call of the handler with
\* (status, raw body) and what it raises is what send throws; a failure with no
\* response never reaches the handler and is classified as without a handler.
C2_HandlerPrecedence == [][Settles => C2_Settled']_vars

\* C2 witness: a 403 response with an envelope body was handed to the handler.
C2_Witness ==
    /\ Failed
    /\ errorHandler = Handler("throws")
    /\ HasResponse(lastError)
    /\ lastError.response.status = 403
    /\ IsUltrasaErrorBody(lastError.response.data)
    /\ completion.value.t = "handler"

\* C3 (as claimed): GET, PUT or DELETE on a client built with maximumRetry = N,
\* every attempt answered with a 500 response: exactly N+1 attempts are made and
\* the error that ends the send carries the status and body of the last one.
\* Read for the clients that build their own axios instance and the sends whose
\* signal never fires.
C3_AlwaysFiveHundred ==
    (/\ pc = "done"
     /\ request.method \in {S_GET, S_PUT, S_DELETE}
     /\ RetryN >= 0
     /\ ~aborted
     /\ AllAre(history, 500)) =>
        /\ attempts = RetryN + 1
        /\ Len(history) = RetryN + 1
        /\ lastError = AxiosErrorOf(lastWire)
        /\ lastError.response = Response(500, lastWire.data, lastWire.headers)

\* C4: once an attempt is answered with a success, that attempt is the last:
\* exactly as many attempts as responses (after M failed attempts and a
\* success, M+1 attempts, and none afterwards), no retry is pending, and the
\* send is about to return, or has returned, that response's body; it never
\* throws.
C4_SuccessStopsRetrying ==
    \A i \in 1..Len(history) :
        history[i] \in 200..299 =>
            /\ i = Len(history)
            /\ attempts = i
            /\ lastWire.status = history[i]
            /\ pc \in {"answered", "done"}
            /\ pc = "answered" => completion = Pending
            /\ pc = "done" => completion = Return([body |-> lastWire.data])

\* C4 witness: a PUT answered 500 and then 200.
C4_Witness ==
    /\ pc = "done"
    /\ request.method = S_PUT
    /\ history = <<500, 200>>
    /\ attempts = 2
    /\ completion.type = "return"


\* The last attempt ended in a timeout of the transport.
IsTimeoutWire(w) ==
    w.k = "failure" /\ IsString(w.message) /\ StartsWith(w.message.v, S_timeout)

\* C5 (as claimed): a POST or PATCH is handed to the wire at most once,
\* whatever the outcome and maximumRetry.
C5_NonIdempotentSingleAttempt ==
    request.method \in {S_POST, S_PATCH} => attempts <= 1

\* C6 (as claimed): after an attempt ended in a timeout or a cancellation, and
\* once the request's signal has aborted (before the send, during an attempt
\* or during a backoff wait), no step hands the request to the wire again and
\* no step schedules a retry.
C6_TimeoutAndCancelTerminal ==
    [][/\ (aborted \/ aborted' \/ lastWire = WireCancelled \/ IsTimeoutWire(lastWire))
              => attempts' <= attempts
       /\ (aborted' \/ lastWire' = WireCancelled \/ IsTimeoutWire(lastWire'))
              => (retryCount' <= retryCount /\ (pc' = "backoff" => pc = "backoff"))
      ]_vars

\* C7: when the terminal failure has no response and its message starts with
\* 'timeout', send throws TimeoutError built with the transport's message,
\* unchanged, whatever handler and constructors are configured.
C7_TimeoutError ==
    (Failed /\ IsTimeoutWire(lastWire)) =>
        /\ completion.type = "throw"
        /\ completion.value = TypedError("TimeoutError", lastWire.message)
        /\ completion.calls = <<>>

\* C7 witness: a timeout classified while a handler and constructors are set.
C7_Witness ==
    /\ Failed
    /\ lastWire.k = "failure"
    /\ lastWire.message = Str(S_timeoutMsg)
    /\ Truthy(errorHandler)
    /\ Truthy(errorConstructors)
    /\ completion.value = TypedError("TimeoutError", Str(S_timeoutMsg))

\* C8: when the signal aborts while an attempt is in flight, send throws
\* NetworkError built with 'canceled', for every method, every number of
\* retries left and every error-resolution configuration.
C8_CanceledInFlight ==
    (pc = "done" /\ lastWire = WireCancelled) =>
        /\ completion.type = "throw"
        /\ completion.value = TypedError("NetworkError", Str(S_canceled))
        /\ completion.calls = <<>>

\* C8 witness: a GET with retries left, a handler configured, cancelled in flight.
C8_Witness ==
    /\ pc = "done"
    /\ lastWire = WireCancelled
    /\ request.method = S_GET
    /\ Retries(props) = 2
    /\ Truthy(errorHandler)
    /\ completion.value = TypedError("NetworkError", Str(S_canceled))

\* C9: when the terminal failure has no response and is neither a timeout nor
\* a cancellation, send throws NetworkError built with the transport's message
\* when the message is not undefined or null, and with its code otherwise.
C9_NetworkError ==
    (Failed /\ lastWire.k = "failure" /\ ~IsTimeoutWire(lastWire) /\ ~aborted) =>
        /\ completion.type = "throw"
        /\ completion.value =
               TypedError("NetworkError",
                          IF lastWire.message.t \in {"undefined", "null"}
                          THEN lastWire.code ELSE lastWire.message)

\* C9 witness: a connection reset without a message surfaces its code.
C9_Witness ==
    /\ Failed
    /\ lastWire.k = "failure"
    /\ lastWire.message = Undefined
    /\ ~aborted
    /\ completion.value = TypedError("NetworkError", Str(S_ECONNRESET))

\* What C10_MappedConstructor asks of the state a send settles in.
C10_Settled ==
    (/\ Failed
     /\ ~Truthy(errorHandler)
     /\ HasResponse(lastError)
     /\ lastWire.k = "response"
     /\ lastWire.data.t = "object"
     /\ lastWire.data.name.t = "string"
     /\ lastWire.data.message.t = "string"
     /\ errorConstructors # Undefined
     /\ errorConstructors.errorNameToConstructor.t = "map"
     /\ lastWire.data.name.v \in DOMAIN errorConstructors.errorNameToConstructor.m) =>
        /\ completion.type = "throw"
        /\ completion.value =
               TypedError(errorConstructors.errorNameToConstructor.m[lastWire.data.name.v].name,
                          lastWire.data.message)

\* C10: with no custom handler, a terminal error response whose body is an envelope
\* {name, message} and a configured name mapping with an entry for name: send
\* throws the mapped constructor built with exactly the envelope's message,
\* for every status and with or without a fallback constructor.
C10_MappedConstructor == [][Settles => C10_Settled']_vars

\* C10 witness: a 404 envelope named SystemError, mapped to NetworkError, with a
\* fallback constructor configured.
C10_Witness ==
    /\ Failed
    /\ ~Truthy(errorHandler)
    /\ HasResponse(lastError)
    /\ lastWire.k = "response"
    /\ lastWire.status = 404
    /\ lastWire.data = Obj(Str(S_SystemError), Str(S_mockErrorMessage))
    /\ errorConstructors # Undefined
    /\ errorConstructors.serviceErrorConstructor = Ctor("MockServiceError")
    /\ completion.value = TypedError("NetworkError", Str(S_mockErrorMessage))


\* The terminal failure is an error response classified with no custom handler.
UnhandledResponse ==
    /\ Failed
    /\ ~Truthy(errorHandler)
    /\ HasResponse(lastError)
    /\ lastWire.k = "response"
\* The body of the last response is a first-party envelope {name, message}.
EnvelopeBody ==
    /\ lastWire.data.t = "object"
    /\ lastWire.data.name.t = "string"
    /\ lastWire.data.message.t = "string"
\* The configured name mapping has an entry for the envelope's name.
NameIsMapped ==
    /\ errorConstructors # Undefined
    /\ errorConstructors.errorNameToConstructor.t = "map"
    /\ lastWire.data.name.v \in DOMAIN errorConstructors.errorNameToConstructor.m
\* A fallback service-error constructor is configured.
FallbackConfigured ==
    /\ errorConstructors # Undefined
    /\ errorConstructors.serviceErrorConstructor.t = "function"
\* "<name>: <message>" of the last response's envelope.
PrefixedMessage == Str(lastWire.data.name.v \o <<":", " ">> \o lastWire.data.message.v)

\* What C11_FallbackConstructor asks of the state a send settles in.
C11_Settled ==
    (UnhandledResponse /\ EnvelopeBody /\ ~NameIsMapped /\ FallbackConfigured) =>
        /\ completion.type = "throw"
        /\ completion.value =
               TypedError(errorConstructors.serviceErrorConstructor.name, PrefixedMessage)

\* C11: with no custom handler, an envelope body whose name has no entry in the
\* mapping (or no mapping is configured) and a fallback constructor configured:
\* send throws the fallback constructor built with "<name>: <message>".
C11_FallbackConstructor == [][Settles => C11_Settled']_vars

\* C11 witness: the mapping knows only "X"; the SystemError envelope reaches the
\* fallback MockServiceError.
C11_Witness ==
    /\ UnhandledResponse
    /\ lastWire.status = 404
    /\ lastWire.data = Obj(Str(S_SystemError), Str(S_mockErrorMessage))
    /\ errorConstructors # Undefined
    /\ errorConstructors.errorNameToConstructor = MapOf([n \in {S_X} |-> Ctor("NetworkError")])
    /\ completion.value =
           TypedError("MockServiceError",
                      Str(<<"S","y","s","t","e","m","E","r","r","o","r",":"," ",
                            "m","o","c","k","E","r","r","o","r","M","e","s","s","a","g","e">>))

\* What C12_StatusErrors asks of the state a send settles in.
C12_Settled ==
    (UnhandledResponse /\ ~EnvelopeBody /\ lastWire.status \in {403, 404}) =>
        /\ completion.type = "throw"
        /\ completion.value =
               TypedError(IF lastWire.status = 403 THEN "UnauthenticatedError"
                                                   ELSE "EndpointNotFoundError",
                          IF lastWire.data.t = "object" /\ lastWire.data.message.t = "string"
                          THEN lastWire.data.message
                          ELSE Str(<<>>))

\* C12: with no custom handler and a body that is no envelope, a 403 response
\* throws UnauthenticatedError and a 404 response EndpointNotFoundError, built
\* with the body's message member when it is a string and with '' otherwise.
C12_StatusErrors == [][Settles => C12_Settled']_vars

\* C12 witness: a 403 whose body has a non-string message gives
\* UnauthenticatedError('').
C12_Witness ==
    /\ UnhandledResponse
    /\ lastWire.status = 403
    /\ lastWire.data = Obj(Str(S_SystemError), Num(42))
    /\ completion.value = TypedError("UnauthenticatedError", Str(<<>>))


\* What C13_OpaquePassthrough asks of the state a send settles in.
C13_Settled ==
    (UnhandledResponse /\ ~EnvelopeBody /\ lastWire.status \notin {403, 404}) =>
        /\ completion.type = "throw"
        /\ completion.value = lastError
        /\ completion.value.isAxiosError
        /\ completion.value.response.status = lastWire.status
        /\ completion.value.response.headers = lastWire.headers
        /\ completion.value.response.data = lastWire.data

\* C13: with no custom handler, a response that is no envelope and whose status
\* is neither 403 nor 404 is rethrown as the very error axios rejected with:
\* the caller sees the status, headers and raw body of the wire's response.
C13_OpaquePassthrough == [][Settles => C13_Settled']_vars

\* C13 witness: the plain-text 401 of a third party comes out as it came in.
C13_Witness ==
    /\ UnhandledResponse
    /\ lastWire.status = 401
    /\ lastWire.data = Str(S_anErrorMessage)
    /\ completion.value.t = "original"
    /\ completion.value.response.status = 401
    /\ completion.value.response.data = Str(S_anErrorMessage)
    /\ completion.value.response.headers = Headers(Str(S_plainText))


\* C14: a request whose method is none of GET, POST, PUT, PATCH, DELETE fails
\* with IllegalArgumentError("Invalid method <method>."), with no attempt handed
\* to the wire and no retry, whatever maximumRetry and the configuration are.
C14_UnsupportedMethod ==
    (pc # "idle" /\ request.method \notin SupportedMethods) =>
        /\ pc = "done"
        /\ attempts = 0
        /\ retryCount = 0
        /\ history = <<>>
        /\ completion.type = "throw"
        /\ completion.value.t = "original"
        /\ completion.value.name = "IllegalArgumentError"
        /\ completion.value.message =
               Str(<<"I","n","v","a","l","i","d"," ","m","e","t","h","o","d"," ">>
                   \o request.method \o <<".">>)
        /\ completion.calls = <<>>

\* C14 witness: a HEAD on a retrying client with a custom handler configured.
C14_Witness ==
    /\ pc = "done"
    /\ request.method = S_HEAD
    /\ props.maximumRetry = Num(MaxRetry)
    /\ ~props.hasInstance
    /\ Truthy(errorHandler)
    /\ attempts = 0
    /\ completion.type = "throw"
    /\ completion.value.name = "IllegalArgumentError"


\* C15: after any sequence of configure calls, the active handler is that of the
\* last handler-kind call and the active mapping and fallback are those of the
\* last constructor-kind call (none before the first call of a kind); a call of
\* one kind leaves the other kind's value as it was, and both can be set.
C15_LastConfigureWins ==
    /\ errorHandler =
           IF lastConfigure.handler = Undefined THEN Undefined
           ELSE lastConfigure.handler.handler
    /\ errorConstructors =
           IF lastConfigure.constructor = Undefined THEN Undefined
           ELSE [t |-> "object",
                 errorNameToConstructor |-> lastConfigure.constructor.errorNameToConstructor,
                 serviceErrorConstructor |-> lastConfigure.constructor.serviceErrorConstructor]

\* C15 witness: a handler and constructors are active together, each from the
\* last call of its kind.
C15_Witness ==
    /\ lastConfigure.handler # Undefined
    /\ lastConfigure.constructor # Undefined
    /\ errorHandler = Handler("returns")
    /\ errorConstructors # Undefined
    /\ errorConstructors.errorNameToConstructor = MapOf([n \in {S_X} |-> Ctor("NetworkError")])
    /\ errorConstructors.serviceErrorConstructor = Ctor("MockServiceError")


\* The typed errors of the taxonomy: the five of the library, or one built by a
\* caller-supplied constructor or raised by the caller's handler.
IsListedTypedError(v) ==
    \/ v.t = "typed" /\ v.ctor \in {"TimeoutError", "NetworkError", "UnauthenticatedError",
                                    "EndpointNotFoundError", "MockServiceError"}
    \/ v.t = "handler"
    \/ v.t = "original" /\ v.name = "IllegalArgumentError"
\* The opaque-passthrough case: a response, status neither 403 nor 404, body no
\* envelope, no custom handler.
PassthroughCase ==
    /\ UnhandledResponse
    /\ lastWire.status \notin {403, 404}
    /\ ~EnvelopeBody
\* The caller receives the error axios rejected with, response and all.
ReceivesOriginal ==
    /\ completion.type = "throw"
    /\ completion.value = lastError
    /\ HasResponse(completion.value)

\* What C16_TypedUnlessPassthrough asks of the state a send settles in.
C16_SettledAsClaimed ==
    Failed =>
        /\ completion.type = "throw"
        /\ PassthroughCase <=> ReceivesOriginal
        /\ ~PassthroughCase => IsListedTypedError(completion.value)

\* C16 (as claimed): whenever send fails the caller receives one of the listed
\* typed errors, except in exactly the opaque-passthrough case.
C16_TypedUnlessPassthrough == [][Settles => C16_SettledAsClaimed']_vars

\* What C16_TypedPlainOrOpaque asks of the state a send settles in.
C16_Settled ==
    Failed =>
        /\ completion.type = "throw"
        /\ PassthroughCase <=> ReceivesOriginal
        /\ (UnhandledResponse /\ EnvelopeBody /\ ~NameIsMapped /\ ~FallbackConfigured)
               <=> (completion.value.t = "typed" /\ completion.value.ctor = "Error")
        /\ (completion.value.t = "typed" /\ completion.value.ctor = "Error")
               => completion.value.arg = PrefixedMessage
        /\ (HasResponse(lastError) /\ Truthy(errorHandler) /\ errorHandler.name = "returns")
               <=> completion.value = Undefined
        /\ \/ PassthroughCase
           \/ IsListedTypedError(completion.value)
           \/ completion.value = Undefined
           \/ completion.value.t = "typed" /\ completion.value.ctor = "Error"

\* C16 (amended): whenever send fails it throws; the caller receives the
\* original error in exactly the opaque-passthrough case; otherwise it receives
\* a listed typed error, or a plain Error("<name>: <message>") exactly when the
\* body is an envelope with no custom handler, no mapping entry for its name and
\* no fallback constructor, or undefined exactly when a configured handler
\* returned instead of raising.
C16_TypedPlainOrOpaque == [][Settles => C16_Settled']_vars

\* C16 witness: a 500 envelope, retried to the end on a client with constructors
\* configured but neither an entry for its name nor a fallback, comes out as a
\* plain Error.
C16_Witness ==
    /\ Failed
    /\ UnhandledResponse
    /\ lastWire.status = 500
    /\ retryCount > 0
    /\ EnvelopeBody
    /\ errorConstructors # Undefined
    /\ ~NameIsMapped
    /\ ~FallbackConfigured
    /\ completion.value.t = "typed"
    /\ completion.value.ctor = "Error"


\* The smaller of two numbers.
Min(a, b) == IF a < b THEN a ELSE b
\* The timeout the first attempt of the send is made under: the request's own
\* when it sets one, else that of the client's props when the constructor
\* created the axios instance, else none (0).
FirstAttemptTimeout ==
    IF request.timeout.t = "number" THEN request.timeout.v
    ELSE IF props.timeout.t = "number" /\ ~props.hasInstance THEN props.timeout.v
    ELSE 0

\* C17 (as claimed): when a request-level and a client-level timeout are both
\* set, the attempt is made under the smaller of the two; when only one is set,
\* under that one.
C17_MinimumTimeout ==
    pc = "inflight" =>
        /\ (request.timeout.t = "number" /\ props.timeout.t = "number")
               => config.timeout = Min(request.timeout.v, props.timeout.v)
        /\ (request.timeout.t = "number" /\ props.timeout.t # "number")
               => config.timeout = request.timeout.v
        /\ (request.timeout.t # "number" /\ props.timeout.t = "number")
               => config.timeout = props.timeout.v

\* The backoff delays before jitter of the retries counted so far.
BackoffSoFar == 100 * (2 ^ (retryCount + 1) - 2)

\* C17 (amended): the first attempt is made under the request-level timeout
\* whenever the request sets one, larger or smaller than the client's; under the
\* client-level timeout when only that one is set and the constructor created
\* the axios instance.  A retried attempt is not given that timeout anew: it is
\* made under what the backoff delays and the time spent have left of it, 1 ms
\* at the least, and only a build that does not give such a retry up makes it
\* when nothing is left.  A timeout names the timeout the attempt was made under.
C17_RequestTimeoutOverrides ==
    /\ (pc \in {"inflight", "backoff"} /\ retryCount = 0) =>
            config.timeout = FirstAttemptTimeout
    /\ (pc \in {"inflight", "backoff"} /\ retryCount > 0) =>
            IF FirstAttemptTimeout = 0
            THEN config.timeout = 0
            ELSE /\ config.timeout >= 1
                 /\ config.timeout < FirstAttemptTimeout
                 /\ IF FirstAttemptTimeout - BackoffSoFar > 1
                    THEN config.timeout <= FirstAttemptTimeout - BackoffSoFar
                    ELSE config.timeout = 1 /\ clampsTimeout
    /\ IsTimeoutWire(lastWire) =>
            /\ config.timeout > 0
            /\ lastWire.message = Str(TimeoutMessage(config.timeout))

\* C17 witness: a client with timeout 100 sends a request with timeout 500; the
\* first attempt is answered 500 and the retry times out under the 300 ms left.
C17_Witness ==
    /\ pc = "done"
    /\ attempts = 2
    /\ ~props.hasInstance
    /\ props.timeout = Num(100)
    /\ request.timeout = Num(500)
    /\ history = <<500, 0>>
    /\ config.timeout = 300
    /\ completion.value = TypedError("TimeoutError", Str(TimeoutMessage(300)))


\* C18: the caller's query mapping holds after send, and at every point of the
\* send, what it held when send was called, for every method and outcome
\* (success, failure, retries): the dispatch path writes to a copy.
C18_QueryNotMutated ==
    pc # "idle" => query = request.query

\* C18 witness: a retried send whose interceptor wrote a parameter into the
\* params of the config has settled, and the caller's mapping is as it was.
C18_Witness ==
    /\ pc = "done"
    /\ retryCount > 0
    /\ InterceptorsInstalled(props)
    /\ request.query = Mapping({<<S_page, S_one>>})
    /\ config.params.entries = {<<S_page, S_one>>, <<S_token, S_secret>>}
    /\ query = Mapping({<<S_page, S_one>>})


\* The terminal failure is an axios error without a response.
NoResponseFailure ==
    /\ Failed
    /\ lastError.t = "original"
    /\ lastError.isAxiosError
    /\ lastError.response = NoResponse
\* Step 1: a timeout.
TimeoutStep ==
    /\ NoResponseFailure
    /\ IsString(lastError.message)
    /\ StartsWith(lastError.message.v, S_timeout)
\* Step 3: a connection failure or other network failure (no timeout, no
\* cancellation).
ConnectionFailureStep ==
    /\ NoResponseFailure
    /\ ~TimeoutStep
    /\ lastError.code # Str(S_ERR_CANCELED)
\* Step 5: a first-party envelope, no custom handler.
EnvelopeStep == UnhandledResponse /\ EnvelopeBody
\* Steps 6 and 7: status 403 or 404, no envelope, no custom handler.
StatusStep == UnhandledResponse /\ ~EnvelopeBody /\ lastWire.status \in {403, 404}

\* What C19_EachStepWarns asks of the state a send settles in.
C19_SettledAsClaimed ==
    (TimeoutStep \/ ConnectionFailureStep \/ EnvelopeStep \/ StatusStep) =>
        /\ completion.type = "throw"
        /\ completion.warns >= 1

\* C19 (as claimed): classification steps 1, 3, 5, 6 and 7 each write a
\* warning-level log entry before the error is raised.
C19_EachStepWarns == [][Settles => C19_SettledAsClaimed']_vars

\* What C19_WarningsByStep asks of the state a send settles in.
C19_Settled ==
    /\ TimeoutStep => (completion.type = "throw" /\ completion.warns = 1)
    /\ StatusStep => (completion.type = "throw" /\ completion.warns = 1)
    /\ EnvelopeStep => (completion.type = "throw" /\ completion.warns \in {1, 2})
    /\ ConnectionFailureStep =>
           /\ completion.type = "throw"
           /\ completion.value.t = "typed"
           /\ completion.value.ctor = "NetworkError"
           /\ completion.warns = 0

\* C19 (amended): steps 1 (timeout), 6 (403) and 7 (404) write one warning
\* entry and step 5 (envelope) one or two before the error is raised; step 3
\* (connection or other network failure) raises its NetworkError without
\* writing any.
C19_WarningsByStep == [][Settles => C19_Settled']_vars

\* C19 witness: a refused connection was classified as NetworkError and nothing
\* was logged at warning level.
C19_Witness ==
    /\ ConnectionFailureStep
    /\ lastWire.k = "failure"
    /\ lastWire.code = Str(S_ECONNREFUSED)
    /\ completion.value = TypedError("NetworkError", Str(S_Error))
    /\ completion.warns = 0


\* What C20_EnvelopeBeforeStatus asks of the state a send settles in.
C20_Settled ==
    (UnhandledResponse /\ EnvelopeBody /\ lastWire.status \in {403, 404}) =>
        /\ completion.type = "throw"
        /\ completion.value.t = "typed"
        /\ completion.value.ctor \notin {"UnauthenticatedError", "EndpointNotFoundError"}
        /\ (~NameIsMapped /\ ~FallbackConfigured) =>
               completion.value = TypedError("Error", PrefixedMessage)

\* C20: the envelope rule comes before the status rules: with no custom handler
\* a 403 or 404 whose body is an envelope never comes out as
\* UnauthenticatedError or EndpointNotFoundError, and with neither a mapping
\* entry for its name nor a fallback constructor it comes out as a plain Error
\* with message "<name>: <message>".
C20_EnvelopeBeforeStatus == [][Settles => C20_Settled']_vars

\* C20 witness: a 403 envelope on a client with nothing configured.
C20_Witness ==
    /\ UnhandledResponse
    /\ lastWire.status = 403
    /\ lastWire.data = Obj(Str(S_SystemError), Str(S_mockErrorMessage))
    /\ errorConstructors = Undefined
    /\ completion.value = TypedError("Error", ServiceMessage(Str(S_SystemError), Str(S_mockErrorMessage)))


\* A network-class transport failure (refused, reset, other; no timeout), or a
\* response with status in [500, 600).
NetworkClassOrServerError(w) ==
    \/ w.k = "failure" /\ w.code # Str(S_ECONNABORTED)
    \/ w.k = "response" /\ w.status >= 500 /\ w.status < 600

\* C21 (as claimed): for an idempotent method with retries remaining, when an
\* attempt fails (an error response, a transport failure, a timeout or a
\* cancellation) a retry is scheduled if and only if the outcome is a
\* network-class failure or a 5xx response, and a scheduled retry whose signal
\* has not aborted is handed to the wire.
C21_RetryIffNetworkOrServerError ==
    [][/\ ( /\ pc = "inflight"
            /\ pc' # "inflight"
            /\ ~IsSuccess(lastWire')
            /\ request.method \in {S_GET, S_PUT, S_DELETE}
            /\ retryCount < Retries(props) )
          => /\ (pc' = "backoff") <=> NetworkClassOrServerError(lastWire')
             /\ (pc' # "backoff") => (pc' = "rejected" /\ attempts' = attempts)
       /\ ( /\ pc = "backoff"
            /\ ~aborted
            /\ (pc' # "backoff" \/ retryCount' # retryCount) )
          => (pc' = "inflight" /\ attempts' = attempts + 1)
      ]_vars


\* C22: at every point of a send, for every method and sequence of outcomes,
\* the attempts handed to the wire number at least 0 and at most
\* maximumRetry + 1, and at most 1 when maximumRetry is absent, zero or negative.
C22_AttemptsBounded ==
    /\ attempts >= 0
    /\ Len(history) <= attempts
    /\ IF props.maximumRetry.t = "number" /\ props.maximumRetry.v > 0
       THEN attempts <= props.maximumRetry.v + 1
       ELSE attempts <= 1

\* C22 witness: a send used up all its retries: maximumRetry + 1 attempts, each
\* answered, and it has settled.
C22_Witness ==
    /\ pc = "done"
    /\ ~props.hasInstance
    /\ props.maximumRetry = Num(MaxRetry)
    /\ attempts = MaxRetry + 1
    /\ Len(history) = MaxRetry + 1


\* C23: a client constructed around a caller-supplied instance installs neither
\* retry nor timeout nor interceptors on it: whatever maximumRetry, the method
\* and the outcome are, no retry is scheduled and at most one attempt is made,
\* under the request's own timeout (else the instance's) and with the params
\* send built.
C23_InstanceUntouched ==
    props.hasInstance =>
        /\ attempts <= 1
        /\ retryCount = 0
        /\ pc # "backoff"
        /\ (pc # "idle" /\ request.method \in SupportedMethods) =>
               /\ config.timeout =
                      IF request.timeout.t = "number" THEN request.timeout.v ELSE 0
               /\ config.params.entries = Spread(request.query)

\* C23 witness: props carry maximumRetry 1, a timeout and an interceptor next to
\* the instance; a GET answered 500 has settled after its one attempt.
C23_Witness ==
    /\ props.hasInstance
    /\ props.maximumRetry = Num(1)
    /\ props.timeout = Num(100)
    /\ props.interceptors = SetsParam
    /\ pc = "done"
    /\ request.method = S_GET
    /\ request.timeout = Undefined
    /\ lastWire.k = "response"
    /\ lastWire.status = 500
    /\ attempts = 1
    /\ config.timeout = 0


\* C24: send takes no snapshot of the error-resolution configuration and never
\* writes it: a failure is classified under the handler and constructors in
\* effect when the catch block runs, so a configure call between the start of
\* a send and its failure changes what the send raises; a step of one send
\* changes neither the configuration nor the state or result of another send.
C24_ClassifiedUnderCurrent ==
    [][/\ (sends' # sends) =>
              (errorHandler' = errorHandler /\ errorConstructors' = errorConstructors)
       /\ \A i \in SendIds :
              ( /\ sends[i].pc = "rejected"
                /\ sends'[i].pc = "done" )
              => sends'[i].completion =
                     SendCatch(AxiosErrorOf(sends[i].outcome), errorHandler, errorConstructors)
       /\ \A i \in SendIds, j \in SendIds :
              (i # j /\ sends'[i] # sends[i]) => sends'[j] = sends[j]
      ]_vars

\* C24 witness: two sends started with nothing configured and got the same 404
\* envelope; a handler was configured between their catch blocks, so the first
\* raised the plain Error and the second what the handler raised.
C24_Witness ==
    /\ sends[1].pc = "done"
    /\ sends[2].pc = "done"
    /\ sends[1].sentUnder = ActiveConfiguration(Undefined, Undefined)
    /\ sends[2].sentUnder = ActiveConfiguration(Undefined, Undefined)
    /\ sends[1].outcome.k = "response"
    /\ sends[1].outcome.status = 404
    /\ sends[2].outcome = sends[1].outcome
    /\ sends[1].completion.value.t = "typed"
    /\ sends[1].completion.value.ctor = "Error"
    /\ sends[2].completion.value.t = "handler"
    /\ sends[2].completion.calls = << <<404, sends[2].outcome.data>> >>

=============================================================================
